---------------------------- MODULE Spec2Model ----------------------------
(***************************************************************************)
(* A model of the Instagram Reels auto-engager: the session control loop   *)
(* (main.py run_session), the engagement decision engine and executor      *)
(* (engager.py), the SQLite store (database.py) and the explore-feed       *)
(* generator (instagram_client.py get_reels_feed).                         *)
(*                                                                         *)
(* Strings the code compares by substring (humor categories, interests)    *)
(* are sequences of one-character strings.  Dates are day numbers; the     *)
(* clock `now` counts half days, the store stamps rows with the UTC date   *)
(* (SQLite CURRENT_TIMESTAMP) and the quota queries use the local date     *)
(* (Python date.today()).                                                  *)
(***************************************************************************)
EXTENDS Naturals, Integers, Sequences, FiniteSets, TLC

(* ------------------------------ bounds -------------------------------- *)
\* distinct reel identifiers (pk) the explore feed can return
MaxItems == 2
\* longest batch of one clips/discover response
MaxPage == 1
\* number of process runs (sessions) on one store
MaxSessions == 2
\* last value of the half-day clock
MaxNow == 1
\* platform calls (download, like, comment, share) that fail on one store
MaxCallFailures == 1
\* store writes that fail on one store
MaxWriteFaults == 1
\* SIGINT / SIGTERM deliveries, kills of the process and edits of
\* friends_config.json on one store
MaxSignals == 1
MaxKills == 1
MaxEdits == 1
\* likes / comments already in today's log when a decision is taken (DecisionSpec)
MaxPrior == 2

ItemIds == 1..MaxItems
MaxDate == (MaxNow + 2) \div 2
Dates == 0..MaxDate

(* ------------------------------ strings ------------------------------- *)
\* str.lower() on the characters the model uses
LowerChar(c) ==
    CASE c = "D" -> "d"
      [] c = "A" -> "a"
      [] c = "R" -> "r"
      [] c = "K" -> "k"
      [] c = "U" -> "u"
      [] OTHER -> c

Lower(s) == [i \in 1..Len(s) |-> LowerChar(s[i])]

\* Python's `needle in hay` on strings: the empty string is in every string
Contains(needle, hay) ==
    \E i \in 0..(Len(hay) - Len(needle)) :
        SubSeq(hay, i + 1, i + Len(needle)) = needle

STR_dark == <<"d", "a", "r", "k">>
STR_unknown == <<"u", "n", "k", "n", "o", "w", "n">>
STR_Dark_humor == <<"D", "a", "r", "k", "_", "h", "u", "m", "o", "r">>
STR_DARK == <<"D", "A", "R", "K">>
STR_gaming == <<"g", "a", "m", "i", "n", "g">>

STR_Unknowns == <<"U", "n", "k", "n", "o", "w", "n", "s">>
STR_now == <<"n", "o", "w">>
STR_empty == <<>>

(* --------------------------- friend profiles -------------------------- *)
\* FriendProfile.__init__: the interests are lower-cased when loaded
FriendProfile(username, interests, max_shares_per_day) ==
    [username |-> username,
     interests |-> [i \in 1..Len(interests) |-> Lower(interests[i])],
     max_shares_per_day |-> max_shares_per_day]

\* FriendProfile.matches_category
matches_category(friend, category) ==
    LET category_lower == Lower(category)
    IN  \E i \in 1..Len(friend.interests) :
            \/ Contains(friend.interests[i], category_lower)
            \/ Contains(category_lower, friend.interests[i])

Usernames == {"a", "b"}

\* entries of friends_config.json
FriendA == [username |-> "a", interests |-> <<STR_Dark_humor>>, max_shares_per_day |-> 1]
FriendB == [username |-> "b", interests |-> <<STR_gaming, STR_DARK>>, max_shares_per_day |-> 1]

\* the contents friends_config.json can have (<<>>: file absent or empty)
FriendFiles == {<<>>, <<FriendB>>, <<FriendA, FriendB>>}

\* Engager._load_friends
_load_friends(file) ==
    [i \in 1..Len(file) |->
        FriendProfile(file[i].username, file[i].interests, file[i].max_shares_per_day)]

(* ------------------------------- config ------------------------------- *)
\* config.json documents of the model (main.py load_config keys)
Configs ==
    {[humor_threshold |-> 1, comment_threshold |-> 2,
      max_reels_per_session |-> MaxItems,
      max_likes_per_day |-> 2, max_comments_per_day |-> 1, max_shares_per_day |-> 2,
      cooldown_after_actions |-> 2]}

\* what ContentAnalyzer.analyze_reel can return
Scores == 0..2
Categories == {STR_dark, STR_unknown}
Comments == {"", "lol"}
\* analyze_reel's result when frames, the API call or the JSON parse fail
NeutralAnalysis ==
    [humor_score |-> 0, humor_category |-> STR_unknown, suggested_comment |-> ""]
AllAnalysisResults ==
    [humor_score : Scores, humor_category : Categories, suggested_comment : Comments]
\* the results the sessions of the model meet: one per combination of
\* decision branches (none, share, like, like+share, like+comment, all three)
AnalysisResults ==
    {NeutralAnalysis,
     [humor_score |-> 0, humor_category |-> STR_dark, suggested_comment |-> "lol"],
     [humor_score |-> 1, humor_category |-> STR_unknown, suggested_comment |-> "lol"],
     [humor_score |-> 2, humor_category |-> STR_dark, suggested_comment |-> ""],
     [humor_score |-> 2, humor_category |-> STR_unknown, suggested_comment |-> "lol"],
     [humor_score |-> 2, humor_category |-> STR_dark, suggested_comment |-> "lol"]}

\* What the GPT-4o call of analyze_reel gives: "ok" a reply whose JSON object
\* has the four keys with values of the expected types; "api_error" the call
\* (or the frame extraction) fails; "no_json" the reply holds no JSON object or
\* one json.loads rejects; "bad_score" a humor_score float() rejects;
\* "null_comment" a reply whose suggested_comment is JSON null.
ResponseKinds == {"ok", "api_error", "no_json", "bad_score", "null_comment"}

\* ContentAnalyzer.analyze_reel: `result` starts neutral and is filled key by
\* key from the parsed reply; every exception is caught and `result` returned
\* as it stands.  float(humor_score) is the first assignment, so a bad score
\* leaves the result neutral; suggested_comment.upper() comes after all four
\* assignments, so a null comment raises with score and category already set
\* (the comment is then None, which the comment decision treats like "").
analyze_reel(kind, parsed) ==
    CASE kind = "ok" -> parsed
      [] kind = "null_comment" -> [parsed EXCEPT !.suggested_comment = ""]
      [] OTHER -> NeutralAnalysis

\* the startup documents: is each credential of config.json non-empty, and is
\* OPENAI_API_KEY set in the environment
GoodStartup == [instagram_username |-> TRUE, instagram_password |-> TRUE,
                openai_api_key |-> TRUE, env_key |-> FALSE]
Startups ==
    {[GoodStartup EXCEPT !.openai_api_key = k, !.env_key = e] :
        k \in BOOLEAN, e \in BOOLEAN}

\* main.validate_config
validate_config(cfg) ==
    cfg.instagram_username /\ cfg.instagram_password /\ cfg.openai_api_key

\* main(), from validate_config to run_session: "exit" (sys.exit(1)) or "run"
main_startup(cfg) ==
    IF ~validate_config(cfg) THEN "exit"
    ELSE LET openai_api_key == IF ~cfg.openai_api_key THEN cfg.env_key ELSE TRUE
         IN  IF ~openai_api_key THEN "exit" ELSE "run"

VARIABLES
    lim,                \* the disturbances the run may meet (see Scenarios)
    now,                \* wall clock, in half days
    tz,                 \* sign of the machine's UTC offset (-1 west, 0, 1 east)
    config,             \* config.json
    friends_file,       \* friends_config.json
    temp_files,         \* temp_reels/<pk>.mp4 files on disk
    db,                 \* reels_data.db
    pc,                 \* position of the process in main / run_session
    sessions,           \* process runs started so far
    shutdown_requested, \* main.shutdown_requested
    mode,               \* --dry-run / --analyze-only flags
    friends,            \* Engager.friends
    gen,                \* the get_reels_feed generator's frame
    reel,               \* reel_data["pk"] of the loop iteration (0: none)
    analysis,           \* analyze_reel's result for the reel
    actions,            \* process_engagement's / run_session's actions list
    share_pos,          \* position of process_engagement's loop over matching friends
    reels_processed,
    actions_since_cooldown,
    shadow,             \* the store and actions list of the same session run live with every call succeeding
    hist                \* history of the run: counters the code does not keep
                        \* (analyzer_calls and saves per pk over the store's life;
                        \* per session: cooldowns, successes, calls, waits, the
                        \* reason the loop ended, what the last stop check read,
                        \* where a signal arrived; pass_from: the length of the
                        \* log when the current decision pass began)

vars == <<lim, now, tz, config, friends_file, temp_files, db, pc, sessions,
          shutdown_requested, mode, friends, gen, reel, analysis, actions,
          share_pos, reels_processed, actions_since_cooldown, shadow, hist>>

(* ------------------------------- clock -------------------------------- *)
\* DATE(timestamp) of a row written now: CURRENT_TIMESTAMP is UTC
UtcDate == (now + 1) \div 2
\* date.today(): the local date, half a day behind (tz = -1) or ahead (tz = 1) of UTC
LocalDate == (now + 1 + tz) \div 2

(* ------------------------------- store -------------------------------- *)
NoReel == [present |-> FALSE, date |-> 0, humor_score |-> 0,
           humor_category |-> <<>>, action_taken |-> ""]
NoStat == [present |-> FALSE, total_analyzed |-> 0, total_liked |-> 0,
           total_commented |-> 0, total_shared |-> 0]

\* Database._init_db on a new file: four empty tables
EmptyDb ==
    [reels_analyzed |-> [i \in ItemIds |-> NoReel],
     engagement_log |-> <<>>,
     daily_stats |-> [d \in Dates |-> NoStat],
     friend_shares |-> [u \in Usernames |-> [d \in Dates |-> 0]]]

\* Database.reel_already_analyzed
reel_already_analyzed(d, reel_id) == d.reels_analyzed[reel_id].present

\* Database.save_reel_analysis: INSERT OR REPLACE, timestamp defaults to CURRENT_TIMESTAMP
save_reel_analysis(d, reel_id, res, action_taken) ==
    [d EXCEPT !.reels_analyzed[reel_id] =
        [present |-> TRUE, date |-> UtcDate, humor_score |-> res.humor_score,
         humor_category |-> res.humor_category, action_taken |-> action_taken]]

\* Database.log_engagement: one appended row, timestamp defaults to CURRENT_TIMESTAMP
log_engagement(d, reel_id, action_type, friend_username, success, error_message) ==
    [d EXCEPT !.engagement_log = Append(@,
        [reel_id |-> reel_id, action_type |-> action_type,
         friend_username |-> friend_username, success |-> success,
         error_message |-> error_message, date |-> UtcDate])]

\* SELECT COUNT(*) FROM engagement_log WHERE action_type = ? AND DATE(timestamp) = ? AND success = 1
CountLog(d, action_type, date) ==
    Cardinality({i \in 1..Len(d.engagement_log) :
        /\ d.engagement_log[i].action_type = action_type
        /\ d.engagement_log[i].date = date
        /\ d.engagement_log[i].success})

\* Database.get_daily_engagement_counts: today is date.today()
get_daily_engagement_counts(d) ==
    [likes |-> CountLog(d, "like", LocalDate),
     comments |-> CountLog(d, "comment", LocalDate),
     shares |-> CountLog(d, "share", LocalDate)]

\* Database.get_friend_share_count_today
get_friend_share_count_today(d, friend_username) ==
    d.friend_shares[friend_username][LocalDate]

\* Database.increment_friend_share_count: upsert with share_count + 1
increment_friend_share_count(d, friend_username) ==
    [d EXCEPT !.friend_shares[friend_username][LocalDate] = @ + 1]

\* Database.update_daily_stats: INSERT OR REPLACE of today's row
\* update_daily_stats whose three engagement counts leave out `AND success = 1`
update_daily_stats_CountsFailures(d) ==
    LET AnyRows(action_type) ==
            Cardinality({i \in 1..Len(d.engagement_log) :
                /\ d.engagement_log[i].action_type = action_type
                /\ d.engagement_log[i].date = LocalDate})
    IN  [d EXCEPT !.daily_stats[LocalDate] =
            [present |-> TRUE,
             total_analyzed |-> Cardinality({i \in ItemIds :
                 d.reels_analyzed[i].present /\ d.reels_analyzed[i].date = LocalDate}),
             total_liked |-> AnyRows("like"),
             total_commented |-> AnyRows("comment"),
             total_shared |-> AnyRows("share")]]

update_daily_stats(d) ==
    [d EXCEPT !.daily_stats[LocalDate] =
        [present |-> TRUE,
         total_analyzed |-> Cardinality({i \in ItemIds :
             d.reels_analyzed[i].present /\ d.reels_analyzed[i].date = LocalDate}),
         total_liked |-> CountLog(d, "like", LocalDate),
         total_commented |-> CountLog(d, "comment", LocalDate),
         total_shared |-> CountLog(d, "share", LocalDate)]]

\* Engager._sync_friends_to_db: nothing is deleted when the list is empty
_sync_friends_to_db(d, fs) ==
    LET current_usernames == {fs[i].username : i \in 1..Len(fs)}
    IN  IF current_usernames = {}
        THEN d
        ELSE [d EXCEPT !.friend_shares =
                [u \in Usernames |->
                    IF u \in current_usernames THEN @[u] ELSE [dt \in Dates |-> 0]]]

\* ",".join(actions) if actions else "none"
RECURSIVE JoinComma(_)
JoinComma(acts) ==
    IF Len(acts) = 1 THEN acts[1] ELSE acts[1] \o "," \o JoinComma(Tail(acts))

action_str(acts) == IF acts = <<>> THEN "none" ELSE JoinComma(acts)

(* ------------------------------ engager ------------------------------- *)
\* Engager._can_like
_can_like(d) == get_daily_engagement_counts(d).likes < config.max_likes_per_day
\* Engager._can_comment
_can_comment(d) == get_daily_engagement_counts(d).comments < config.max_comments_per_day
\* Engager._can_share
_can_share(d) == get_daily_engagement_counts(d).shares < config.max_shares_per_day
\* Engager._can_share_to_friend
_can_share_to_friend(d, friend) ==
    get_friend_share_count_today(d, friend.username) < friend.max_shares_per_day

\* _find_matching_friends that keeps every friend
_find_matching_friends_All(fs, humor_category) == fs

\* Engager._find_matching_friends
_find_matching_friends(fs, humor_category) ==
    SelectSeq(fs, LAMBDA f : matches_category(f, humor_category))

\* What one executor call meets: the platform call returns True ("ok"), returns
\* False ("fail") or raises ("raise"); w1 says whether the log write of the try
\* block (or of the dry-run branch) lands, w2 whether the log write of the
\* except block lands, w3 whether the friend_shares write lands.
CallOutcomes == {"ok", "fail", "raise"}
Outcomes == [call : CallOutcomes, w1 : BOOLEAN, w2 : BOOLEAN, w3 : BOOLEAN]

\* ExceptBlock that lets the exception of the platform call propagate
ExceptBlock_Propagates(d, reel_id, action_type, friend_username, o) ==
    [db |-> d, success |-> FALSE, raised |-> TRUE]

\* The except block of _do_like / _do_comment / _do_share: a failure row with
\* the error text, then return False; a failing write propagates.
ExceptBlock(d, reel_id, action_type, friend_username, o) ==
    IF o.w2
    THEN [db |-> log_engagement(d, reel_id, action_type, friend_username, FALSE, "error"),
          success |-> FALSE, raised |-> FALSE]
    ELSE [db |-> d, success |-> FALSE, raised |-> TRUE]

\* DoAction with a dry-run branch that returns True without writing the record
DoAction_DrySkipsLog(d, reel_id, action_type, friend_username, dry, o) ==
    IF dry
    THEN [db |-> d, success |-> TRUE, raised |-> FALSE]
    ELSE IF o.call = "raise"
         THEN ExceptBlock(d, reel_id, action_type, friend_username, o)
         ELSE IF o.w1
              THEN [db |-> log_engagement(d, reel_id, action_type, friend_username,
                                          o.call = "ok", ""),
                    success |-> o.call = "ok", raised |-> FALSE]
              ELSE ExceptBlock(d, reel_id, action_type, friend_username, o)

\* Engager._do_like and Engager._do_comment (the same shape), and the part of
\* Engager._do_share up to its log_engagement call
DoAction(d, reel_id, action_type, friend_username, dry, o) ==
    IF dry
    THEN IF o.w1
         THEN [db |-> log_engagement(d, reel_id, action_type, friend_username, TRUE, ""),
               success |-> TRUE, raised |-> FALSE]
         ELSE [db |-> d, success |-> FALSE, raised |-> TRUE]
    ELSE IF o.call = "raise"
         THEN ExceptBlock(d, reel_id, action_type, friend_username, o)
         ELSE IF o.w1
              THEN [db |-> log_engagement(d, reel_id, action_type, friend_username,
                                          o.call = "ok", ""),
                    success |-> o.call = "ok", raised |-> FALSE]
              ELSE ExceptBlock(d, reel_id, action_type, friend_username, o)

\* Engager._do_like
_do_like(d, reel_id, dry, o) == DoAction(d, reel_id, "like", "", dry, o)
\* Engager._do_comment
_do_comment(d, reel_id, dry, o) == DoAction(d, reel_id, "comment", "", dry, o)
\* Engager._do_share, up to and including its log_engagement call
_do_share(d, reel_id, friend, dry, o) ==
    DoAction(d, reel_id, "share", friend.username, dry, o)

\* Engager._do_share, from increment_friend_share_count on
_do_share_increment(d, reel_id, friend, dry, o) ==
    IF o.w3
    THEN [db |-> increment_friend_share_count(d, friend.username),
          success |-> TRUE, raised |-> FALSE]
    ELSE IF dry
         THEN [db |-> d, success |-> FALSE, raised |-> TRUE]
         ELSE ExceptBlock(d, reel_id, "share", friend.username, o)

\* LikeDecision with a strict comparison against humor_threshold
LikeDecision_Strict(d, acts, reel_id, res, dry, o) ==
    IF res.humor_score > config.humor_threshold /\ _can_like(d)
    THEN LET r == _do_like(d, reel_id, dry, o)
         IN  [db |-> r.db, raised |-> r.raised, attempted |-> TRUE,
              actions |-> IF r.success THEN Append(acts, "like") ELSE acts]
    ELSE [db |-> d, raised |-> FALSE, attempted |-> FALSE, actions |-> acts]

\* process_engagement, the like decision
LikeDecision(d, acts, reel_id, res, dry, o) ==
    IF res.humor_score >= config.humor_threshold /\ _can_like(d)
    THEN LET r == _do_like(d, reel_id, dry, o)
         IN  [db |-> r.db, raised |-> r.raised, attempted |-> TRUE,
              actions |-> IF r.success THEN Append(acts, "like") ELSE acts]
    ELSE [db |-> d, raised |-> FALSE, attempted |-> FALSE, actions |-> acts]

\* process_engagement, the comment decision
CommentDecision(d, acts, reel_id, res, dry, o) ==
    IF /\ res.humor_score >= config.comment_threshold
       /\ res.suggested_comment # ""
       /\ _can_comment(d)
    THEN LET r == _do_comment(d, reel_id, dry, o)
         IN  [db |-> r.db, raised |-> r.raised, attempted |-> TRUE,
              actions |-> IF r.success THEN Append(acts, "comment") ELSE acts]
    ELSE [db |-> d, raised |-> FALSE, attempted |-> FALSE, actions |-> acts]

\* the first position from `from` on of a friend _can_share_to_friend accepts (0: none)
\* NextEligible without the _can_share_to_friend test
NextEligible_IgnoresCap(d, matching, from) ==
    IF from > Len(matching) THEN 0 ELSE from

RECURSIVE NextEligible(_, _, _)
NextEligible(d, matching, from) ==
    IF from > Len(matching) THEN 0
    ELSE IF _can_share_to_friend(d, matching[from]) THEN from
    ELSE NextEligible(d, matching, from + 1)

\* ShareDecision under the like threshold: reels below humor_threshold are not shared
ShareDecision_ScoreGated(d, fs, pos, reel_id, res, dry, o) ==
    LET matching == _find_matching_friends(fs, res.humor_category)
        k == NextEligible(d, matching, IF pos = 0 THEN 1 ELSE pos)
    IN  IF res.humor_score < config.humor_threshold \/ (pos = 0 /\ ~_can_share(d)) \/ k = 0
        THEN [db |-> d, raised |-> FALSE, attempted |-> FALSE, next |-> "save", pos |-> 0]
        ELSE LET r == _do_share(d, reel_id, matching[k], dry, o)
             IN  [db |-> r.db, raised |-> r.raised, attempted |-> TRUE,
                  next |-> IF r.success THEN "share_inc" ELSE "share",
                  pos |-> IF r.success THEN k ELSE k + 1]

\* process_engagement, the share decision: from position pos (0: before
\* _can_share) to the end of the next _do_share's log_engagement call.
\* next: "save" (the loop is over), "share_inc" (the share went through and
\* its counter is to be incremented) or "share" (the next friend is tried).
ShareDecision(d, fs, pos, reel_id, res, dry, o) ==
    LET matching == _find_matching_friends(fs, res.humor_category)
        k == NextEligible(d, matching, IF pos = 0 THEN 1 ELSE pos)
    IN  IF (pos = 0 /\ ~_can_share(d)) \/ k = 0
        THEN [db |-> d, raised |-> FALSE, attempted |-> FALSE, next |-> "save", pos |-> 0]
        ELSE LET r == _do_share(d, reel_id, matching[k], dry, o)
             IN  [db |-> r.db, raised |-> r.raised, attempted |-> TRUE,
                  next |-> IF r.success THEN "share_inc" ELSE "share",
                  pos |-> IF r.success THEN k ELSE k + 1]

\* ShareIncrement without the `break`: the loop goes on after a share that went through
ShareIncrement_NoBreak(d, acts, fs, pos, reel_id, res, dry, o) ==
    LET matching == _find_matching_friends(fs, res.humor_category)
        r == _do_share_increment(d, reel_id, matching[pos], dry, o)
    IN  [db |-> r.db, raised |-> r.raised,
         actions |-> IF r.success
                     THEN Append(acts, "share:" \o matching[pos].username) ELSE acts,
         next |-> "share",
         pos |-> pos + 1]

\* process_engagement after a _do_share whose log row went in: the counter
\* write, then `actions.append; break`, or the next friend when _do_share
\* returned False
ShareIncrement(d, acts, fs, pos, reel_id, res, dry, o) ==
    LET matching == _find_matching_friends(fs, res.humor_category)
        r == _do_share_increment(d, reel_id, matching[pos], dry, o)
    IN  [db |-> r.db, raised |-> r.raised,
         actions |-> IF r.success
                     THEN Append(acts, "share:" \o matching[pos].username) ELSE acts,
         next |-> IF r.success THEN "save" ELSE "share",
         pos |-> IF r.success THEN 0 ELSE pos + 1]

(* --------------------------- feed generator --------------------------- *)
\* batches of a clips/discover response: the media pks of result["items"]
RECURSIVE SeqsUpTo(_, _)
SeqsUpTo(S, n) ==
    IF n = 0 THEN {<<>>}
    ELSE LET shorter == SeqsUpTo(S, n - 1)
         IN  shorter \cup {Append(q, x) : q \in shorter, x \in S}

Pages == SeqsUpTo(ItemIds, MaxPage)

\* what private_request("clips/discover/") gives: an exception, or the items
\* and the continuation token (0: none)
FeedResults == [error : {FALSE}, items : Pages, max_id : {0, 1}]
                 \cup {[error |-> TRUE, items |-> <<>>, max_id |-> 0]}

\* get_reels_feed before its first next(); max_id holds the token of the
\* batch being iterated, which the code assigns once the batch is used up
NewGen == [count |-> 0, seen_pks |-> {}, items |-> <<>>, max_id |-> 0]

\* the first position of `items` whose pk is not in seen_pks (0: none)
RECURSIVE FirstNew(_, _, _)
FirstNew(items, seen_pks, i) ==
    IF i > Len(items) THEN 0
    ELSE IF items[i] \notin seen_pks THEN i
    ELSE FirstNew(items, seen_pks, i + 1)

(* ------------------------------ history ------------------------------- *)
NoObservation == [stop_file |-> FALSE, time_up |-> FALSE]

NewSessionHist(h) ==
    [h EXCEPT !.cooldowns = 0, !.successes = 0, !.calls = 0, !.waits = 0,
              !.stop_reason = "", !.write_failed = FALSE, !.signalled = "",
              !.top = NoObservation, !.pass_from = 0, !.teardowns = 0,
              !.analyzer_failed = FALSE, !.startup = GoodStartup]

LiveMode == [dry_run |-> FALSE, analyze_only |-> FALSE]
Modes == {LiveMode,
          [dry_run |-> TRUE, analyze_only |-> FALSE],
          [dry_run |-> FALSE, analyze_only |-> TRUE]}

\* an engager constructed without the --dry-run flag of the session
EngagerDryRun_FlagDropped == mode.analyze_only

\* Engager.__init__: dry_run=dry_run or analyze_only
EngagerDryRun == mode.dry_run \/ mode.analyze_only

Stopped == {"idle", "stopped", "killed", "crashed", "login_failed", "config_exit"}
InFlight == {"download", "analyze", "like", "comment", "share", "share_inc",
             "save", "finish"}
Running == {"fetch", "scan", "feed", "top", "teardown"} \cup InFlight

Mirror(d, acts) == [db |-> d, actions |-> acts, agree |-> TRUE]

\* the store writes of DoAction that fail under outcome o
LogFaults(dry, o) ==
    IF dry THEN (IF o.w1 THEN 0 ELSE 1)
    ELSE IF o.call # "raise" /\ o.w1 THEN 0
    ELSE (IF o.call # "raise" THEN 1 ELSE 0) + (IF o.w2 THEN 0 ELSE 1)

\* the store writes of _do_share_increment that fail under outcome o
IncrementFaults(dry, o) ==
    IF o.w3 THEN 0 ELSE 1 + (IF ~dry /\ ~o.w2 THEN 1 ELSE 0)

\* the outcome of the same executor call in a live run whose platform call succeeds
LiveOk(o) == [o EXCEPT !.call = "ok"]

NumFalse(o) ==
    (IF o.w1 THEN 0 ELSE 1) + (IF o.w2 THEN 0 ELSE 1) + (IF o.w3 THEN 0 ELSE 1)

\* the outcomes the run may still meet
AdmissibleOutcomes ==
    {o \in Outcomes :
        /\ hist.faults + NumFalse(o) <= lim.faults
        /\ o.call # "ok" => hist.failures < lim.failures}

WriteOutcomes == {lands \in BOOLEAN : ~lands => hist.faults < lim.faults}

\* The disturbances of a run.  Every run has up to MaxSessions sessions on
\* any feed and any analysis results; on top of that it meets one kind of
\* disturbance: the clock (a time zone off UTC, days passing), signals,
\* kills, failing platform calls, failing store writes, edits of the
\* friends file, sessions started with --dry-run / --analyze-only, or
\* startups with the analyzer credential missing from config.json.  A failing
\* analyzer call counts as a failing platform call.
Quiet == [modes |-> {LiveMode}, startups |-> {GoodStartup}, tz |-> 0, ticks |-> 0, signals |-> 0, kills |-> 0, failures |-> 0,
          faults |-> 0, edits |-> 0]
Scenarios ==
    {[Quiet EXCEPT !.tz = z, !.ticks = MaxNow] : z \in {-1, 0, 1}}
    \cup {[Quiet EXCEPT !.signals = MaxSignals],
          [Quiet EXCEPT !.kills = MaxKills],
          [Quiet EXCEPT !.failures = MaxCallFailures],
          [Quiet EXCEPT !.faults = MaxWriteFaults],
          [Quiet EXCEPT !.edits = MaxEdits],
          [Quiet EXCEPT !.modes = Modes],
          [Quiet EXCEPT !.startups = Startups]}

(* -------------------------------- Init -------------------------------- *)
Init ==
    /\ lim \in Scenarios
    /\ now = 0
    /\ tz = lim.tz
    /\ config \in Configs
    /\ friends_file = <<FriendA, FriendB>>
    /\ temp_files = {}
    /\ db = EmptyDb
    /\ pc = "idle"
    /\ sessions = 0
    /\ shutdown_requested = FALSE
    /\ mode = LiveMode
    /\ friends = <<>>
    /\ gen = NewGen
    /\ reel = 0
    /\ analysis = NeutralAnalysis
    /\ actions = <<>>
    /\ share_pos = 0
    /\ reels_processed = 0
    /\ actions_since_cooldown = 0
    /\ shadow = Mirror(EmptyDb, <<>>)
    /\ hist = [analyzer_calls |-> [i \in ItemIds |-> 0],
               saves |-> [i \in ItemIds |-> 0],
               cooldowns |-> 0, successes |-> 0, calls |-> 0, waits |-> 0,
               stop_reason |-> "", write_failed |-> FALSE, signalled |-> "",
               top |-> NoObservation, faults |-> 0, failures |-> 0,
               signals |-> 0, kills |-> 0, edits |-> 0, pass_from |-> 0,
               teardowns |-> 0, analyzer_failed |-> FALSE, startup |-> GoodStartup]

\* the process is gone: its memory with it
ProcessGone ==
    /\ shutdown_requested' = FALSE
    /\ mode' = LiveMode
    /\ friends' = <<>>
    /\ gen' = NewGen
    /\ reel' = 0
    /\ analysis' = NeutralAnalysis
    /\ actions' = <<>>
    /\ share_pos' = 0
    /\ reels_processed' = 0
    /\ actions_since_cooldown' = 0
    /\ shadow' = Mirror(db', <<>>)

(* ----------------------------- environment ---------------------------- *)
\* half a day passes
Tick ==
    /\ now < lim.ticks
    /\ now' = now + 1
    /\ UNCHANGED <<lim, tz, config, friends_file, temp_files, db, pc, sessions,
                   shutdown_requested, mode, friends, gen, reel, analysis,
                   actions, share_pos, reels_processed, actions_since_cooldown,
                   shadow, hist>>

\* friends_config.json is edited while no session runs
EditFriends ==
    /\ pc \in Stopped
    /\ sessions < MaxSessions
    /\ hist.edits < lim.edits
    /\ \E f \in FriendFiles \ {friends_file} : friends_file' = f
    /\ hist' = [hist EXCEPT !.edits = @ + 1]
    /\ UNCHANGED <<lim, now, tz, config, temp_files, db, pc, sessions,
                   shutdown_requested, mode, friends, gen, reel, analysis,
                   actions, share_pos, reels_processed, actions_since_cooldown,
                   shadow>>

\* a signal handler that ends the loop on the spot instead of setting the flag only
signal_handler_Preempt ==
    /\ pc \in Running
    /\ hist.signals < lim.signals
    /\ shutdown_requested' = TRUE
    /\ pc' = "teardown"
    /\ hist' = [hist EXCEPT !.signals = @ + 1,
                            !.signalled = IF pc \in InFlight THEN "item" ELSE "boundary",
                            !.stop_reason = "shutdown"]
    /\ UNCHANGED <<lim, now, tz, config, friends_file, temp_files, db,
                   sessions, mode, friends, gen, reel, analysis, actions,
                   share_pos, reels_processed, actions_since_cooldown, shadow>>

\* main.signal_handler, run on SIGINT / SIGTERM
signal_handler ==
    /\ pc \in Running
    /\ hist.signals < lim.signals
    /\ shutdown_requested' = TRUE
    /\ hist' = [hist EXCEPT !.signals = @ + 1,
                            !.signalled = IF pc \in InFlight THEN "item" ELSE "boundary"]
    /\ UNCHANGED <<lim, now, tz, config, friends_file, temp_files, db, pc,
                   sessions, mode, friends, gen, reel, analysis, actions,
                   share_pos, reels_processed, actions_since_cooldown, shadow>>

\* the process is killed (SIGKILL, power loss): nothing of run_session runs after it
Kill ==
    /\ pc \in Running
    /\ hist.kills < lim.kills
    /\ pc' = "killed"
    /\ hist' = [hist EXCEPT !.kills = @ + 1]
    /\ UNCHANGED <<lim, now, tz, config, friends_file, temp_files, db, sessions>>
    /\ ProcessGone

(* ------------------------------ session ------------------------------- *)
\* main() and run_session up to the first next() of the feed generator
StartSession ==
    /\ pc \in Stopped
    /\ sessions < MaxSessions
    /\ \E m \in lim.modes, login_ok \in BOOLEAN, cfg \in lim.startups :
        /\ mode' = m
        /\ pc' = IF main_startup(cfg) = "exit" THEN "config_exit"
                 ELSE IF login_ok THEN "fetch" ELSE "login_failed"
        /\ hist' = [NewSessionHist(hist) EXCEPT !.startup = cfg]
        \* Engager.__init__ runs in run_session only
        /\ friends' = IF main_startup(cfg) = "exit" THEN <<>> ELSE _load_friends(friends_file)
    /\ sessions' = sessions + 1
    /\ shutdown_requested' = FALSE
    /\ db' = _sync_friends_to_db(db, friends')
    /\ gen' = NewGen
    /\ reel' = 0
    /\ analysis' = NeutralAnalysis
    /\ actions' = <<>>
    /\ share_pos' = 0
    /\ reels_processed' = 0
    /\ actions_since_cooldown' = 0
    /\ shadow' = Mirror(db', <<>>)
    /\ UNCHANGED <<lim, now, tz, config, friends_file, temp_files>>

\* FetchBatch whose request error escapes the generator and the session
FetchBatch_ErrorEscapes ==
    /\ pc = "fetch"
    /\ \E result \in FeedResults :
        IF gen.count >= config.max_reels_per_session
        THEN /\ pc' = "teardown"
             /\ hist' = [hist EXCEPT !.stop_reason = "feed_end"]
             /\ gen' = gen
        ELSE IF result.error \/ result.items = <<>>
        THEN /\ pc' = IF result.error THEN "crashed" ELSE "teardown"
             /\ hist' = [hist EXCEPT !.stop_reason =
                            IF result.error THEN "feed_error" ELSE "feed_end"]
             /\ gen' = gen
        ELSE /\ pc' = "scan"
             /\ hist' = hist
             /\ gen' = [gen EXCEPT !.items = result.items, !.max_id = result.max_id]
    /\ UNCHANGED <<lim, now, tz, config, friends_file, temp_files, db, sessions,
                   shutdown_requested, mode, friends, reel, analysis, actions,
                   share_pos, reels_processed, actions_since_cooldown, shadow>>

\* get_reels_feed: the while test and one clips/discover request
FetchBatch ==
    /\ pc = "fetch"
    /\ \E result \in FeedResults :
        IF gen.count >= config.max_reels_per_session
        THEN /\ pc' = "teardown"
             /\ hist' = [hist EXCEPT !.stop_reason = "feed_end"]
             /\ gen' = gen
        ELSE IF result.error \/ result.items = <<>>
        THEN /\ pc' = "teardown"
             /\ hist' = [hist EXCEPT !.stop_reason =
                            IF result.error THEN "feed_error" ELSE "feed_end"]
             /\ gen' = gen
        ELSE /\ pc' = "scan"
             /\ hist' = hist
             /\ gen' = [gen EXCEPT !.items = result.items, !.max_id = result.max_id]
    /\ UNCHANGED <<lim, now, tz, config, friends_file, temp_files, db, sessions,
                   shutdown_requested, mode, friends, reel, analysis, actions,
                   share_pos, reels_processed, actions_since_cooldown, shadow>>

\* get_reels_feed: the for loop over the batch, up to the next yield, and the
\* code after the loop (next page token, sleep)
ScanBatch ==
    /\ pc = "scan"
    /\ LET k == FirstNew(gen.items, gen.seen_pks, 1)
       IN  IF gen.items # <<>> /\ gen.count >= config.max_reels_per_session
           THEN \* break; the while test then ends the generator
                /\ pc' = "teardown"
                /\ hist' = [hist EXCEPT !.stop_reason = "feed_end"]
                /\ gen' = [gen EXCEPT !.items = <<>>]
                /\ reel' = reel
           ELSE IF k = 0
           THEN \* the batch is used up: max_id = result.get("max_id")
                /\ pc' = IF gen.max_id = 0 THEN "teardown" ELSE "fetch"
                /\ hist' = [hist EXCEPT !.stop_reason =
                               IF gen.max_id = 0 THEN "feed_end" ELSE @]
                /\ gen' = [gen EXCEPT !.items = <<>>]
                /\ reel' = reel
           ELSE \* yield reel_data
                /\ pc' = "top"
                /\ hist' = hist
                /\ gen' = [gen EXCEPT !.seen_pks = @ \cup {gen.items[k]},
                                      !.items = SubSeq(gen.items, k + 1, Len(gen.items))]
                /\ reel' = gen.items[k]
    /\ UNCHANGED <<lim, now, tz, config, friends_file, temp_files, db, sessions,
                   shutdown_requested, mode, friends, analysis, actions,
                   share_pos, reels_processed, actions_since_cooldown, shadow>>

\* FeedNext with the generator's count left as it was
FeedNext_NoCount ==
    /\ pc = "feed"
    /\ pc' = "scan"
    /\ gen' = gen
    /\ UNCHANGED <<lim, now, tz, config, friends_file, temp_files, db, sessions,
                   shutdown_requested, mode, friends, reel, analysis, actions,
                   share_pos, reels_processed, actions_since_cooldown, shadow, hist>>

\* the for loop of run_session asks for the next reel: the generator resumes
\* after its yield (count += 1)
FeedNext ==
    /\ pc = "feed"
    /\ pc' = "scan"
    /\ gen' = [gen EXCEPT !.count = @ + 1]
    /\ UNCHANGED <<lim, now, tz, config, friends_file, temp_files, db, sessions,
                   shutdown_requested, mode, friends, reel, analysis, actions,
                   share_pos, reels_processed, actions_since_cooldown, shadow, hist>>

\* StopCondition with the deadline tested before the STOP file
StopCondition_DeadlineFirst(stop_file, time_up) ==
    IF shutdown_requested THEN "shutdown"
    ELSE IF time_up THEN "deadline"
    ELSE IF stop_file THEN "stop_file"
    ELSE IF reels_processed >= config.max_reels_per_session THEN "max_reels"
    ELSE ""

\* the reason the stop conditions of run_session give for the break ("": none
\* holds), given what check_stop_file() and the deadline test return
StopCondition(stop_file, time_up) ==
    IF shutdown_requested THEN "shutdown"
    ELSE IF stop_file THEN "stop_file"
    ELSE IF time_up THEN "deadline"
    ELSE IF reels_processed >= config.max_reels_per_session THEN "max_reels"
    ELSE ""

\* run_session, top of the loop body: the stop conditions, then the duplicate
\* check.  stop_file: Path("STOP").exists(); time_up: datetime.now() >= session_end_time
LoopTop ==
    /\ pc = "top"
    /\ \E stop_file \in BOOLEAN, time_up \in BOOLEAN :
        LET why == StopCondition(stop_file, time_up)
        IN  /\ pc' = IF why # "" THEN "teardown"
                     ELSE IF reel_already_analyzed(db, reel) THEN "feed"
                     ELSE "download"
            /\ hist' = [hist EXCEPT !.stop_reason = why,
                                    !.top = [stop_file |-> stop_file, time_up |-> time_up]]
            /\ reel' = IF why = "" /\ reel_already_analyzed(db, reel) THEN 0 ELSE reel
    /\ UNCHANGED <<lim, now, tz, config, friends_file, temp_files, db, sessions,
                   shutdown_requested, mode, friends, gen, analysis, actions,
                   share_pos, reels_processed, actions_since_cooldown, shadow>>

\* instagram.download_reel: the file is there ("ok"), nothing is there ("none"),
\* or the direct download broke off and the API fallback failed ("partial")
DownloadOutcomes == {"ok", "none", "partial"}

\* Download that hands the reel to the analyzer whatever download_reel returned
Download_NoSkip ==
    /\ pc = "download"
    /\ \E outcome \in DownloadOutcomes :
        /\ outcome # "ok" => hist.failures < lim.failures
        /\ temp_files' = IF outcome = "none" THEN temp_files ELSE temp_files \cup {reel}
        /\ pc' = "analyze"
        /\ reel' = reel
        /\ hist' = [hist EXCEPT !.failures = IF outcome = "ok" THEN @ ELSE @ + 1]
    /\ UNCHANGED <<lim, now, tz, config, friends_file, db, sessions,
                   shutdown_requested, mode, friends, gen, analysis, actions,
                   share_pos, reels_processed, actions_since_cooldown, shadow>>

Download ==
    /\ pc = "download"
    /\ \E outcome \in DownloadOutcomes :
        /\ outcome # "ok" => hist.failures < lim.failures
        /\ temp_files' = IF outcome = "none" THEN temp_files ELSE temp_files \cup {reel}
        /\ pc' = IF outcome = "ok" THEN "analyze" ELSE "feed"
        /\ reel' = IF outcome = "ok" THEN reel ELSE 0
        /\ hist' = [hist EXCEPT !.failures = IF outcome = "ok" THEN @ ELSE @ + 1]
    /\ UNCHANGED <<lim, now, tz, config, friends_file, db, sessions,
                   shutdown_requested, mode, friends, gen, analysis, actions,
                   share_pos, reels_processed, actions_since_cooldown, shadow>>

\* Analyze followed by process_engagement in every mode
Analyze_AlwaysDecides ==
    /\ pc = "analyze"
    /\ \E kind \in ResponseKinds, parsed \in AnalysisResults :
        /\ kind # "ok" => hist.failures < lim.failures
        /\ analysis' = analyze_reel(kind, parsed)
        /\ hist' = [hist EXCEPT !.analyzer_calls[reel] = @ + 1,
                                !.pass_from = Len(db.engagement_log),
                                !.analyzer_failed = kind # "ok",
                                !.failures = IF kind = "ok" THEN @ ELSE @ + 1]
    /\ actions' = <<>>
    /\ share_pos' = 0
    /\ pc' = "like"
    /\ shadow' = [shadow EXCEPT !.actions = <<>>]
    /\ UNCHANGED <<lim, now, tz, config, friends_file, temp_files, db, sessions,
                   shutdown_requested, mode, friends, gen, reel,
                   reels_processed, actions_since_cooldown>>

\* analyzer.analyze_reel and `actions = []`
Analyze ==
    /\ pc = "analyze"
    /\ \E kind \in ResponseKinds, parsed \in AnalysisResults :
        /\ kind # "ok" => hist.failures < lim.failures
        /\ analysis' = analyze_reel(kind, parsed)
        /\ hist' = [hist EXCEPT !.analyzer_calls[reel] = @ + 1,
                                !.pass_from = Len(db.engagement_log),
                                !.analyzer_failed = kind # "ok",
                                !.failures = IF kind = "ok" THEN @ ELSE @ + 1]
    /\ actions' = <<>>
    /\ share_pos' = 0
    /\ pc' = IF mode.analyze_only THEN "save" ELSE "like"
    /\ shadow' = [shadow EXCEPT !.actions = <<>>]
    /\ UNCHANGED <<lim, now, tz, config, friends_file, temp_files, db, sessions,
                   shutdown_requested, mode, friends, gen, reel,
                   reels_processed, actions_since_cooldown>>

\* the bookkeeping of an executor step.  An exception that leaves the inner
\* try of run_session runs its finally (the video is unlinked); the outer
\* except logs it and the outer finally follows.
Executed(r) ==
    /\ temp_files' = IF r.raised THEN temp_files \ {reel} ELSE temp_files
    /\ hist' = [hist EXCEPT
           !.stop_reason = IF r.raised THEN "error" ELSE @,
           !.write_failed = @ \/ r.faults > 0,
           !.faults = @ + r.faults,
           !.failures = IF r.called /\ r.call # "ok" THEN @ + 1 ELSE @,
           !.calls = IF r.called THEN @ + 1 ELSE @,
           !.successes = @ + r.gained]

\* the shadow run takes the same step live, its platform call succeeding
ShadowStep(r, rs) ==
    shadow' = IF mode.dry_run
              THEN [db |-> rs.db, actions |-> rs.actions,
                    agree |-> /\ shadow.agree
                              /\ rs.raised = r.raised
                              /\ rs.next = r.next
                              /\ rs.pos = r.pos]
              ELSE Mirror(db', actions')

\* process_engagement: the like decision and _do_like
LikeStep ==
    /\ pc = "like"
    /\ \E o \in AdmissibleOutcomes :
        LET r == LikeDecision(db, actions, reel, analysis, EngagerDryRun, o)
            rs == LikeDecision(shadow.db, shadow.actions, reel, analysis, FALSE, LiveOk(o))
        IN  /\ db' = r.db
            /\ actions' = r.actions
            /\ pc' = IF r.raised THEN "teardown" ELSE "comment"
            /\ Executed([raised |-> r.raised, call |-> o.call,
                         faults |-> IF r.attempted THEN LogFaults(EngagerDryRun, o) ELSE 0,
                         called |-> r.attempted /\ ~EngagerDryRun,
                         gained |-> Len(r.actions) - Len(actions)])
            /\ ShadowStep([raised |-> r.raised, next |-> "", pos |-> 0],
                          [db |-> rs.db, actions |-> rs.actions, raised |-> rs.raised,
                           next |-> "", pos |-> 0])
    /\ UNCHANGED <<lim, now, tz, config, friends_file, sessions,
                   shutdown_requested, mode, friends, gen, reel, analysis,
                   share_pos, reels_processed, actions_since_cooldown>>

\* process_engagement: the comment decision and _do_comment
CommentStep ==
    /\ pc = "comment"
    /\ \E o \in AdmissibleOutcomes :
        LET r == CommentDecision(db, actions, reel, analysis, EngagerDryRun, o)
            rs == CommentDecision(shadow.db, shadow.actions, reel, analysis, FALSE, LiveOk(o))
        IN  /\ db' = r.db
            /\ actions' = r.actions
            /\ pc' = IF r.raised THEN "teardown" ELSE "share"
            /\ Executed([raised |-> r.raised, call |-> o.call,
                         faults |-> IF r.attempted THEN LogFaults(EngagerDryRun, o) ELSE 0,
                         called |-> r.attempted /\ ~EngagerDryRun,
                         gained |-> Len(r.actions) - Len(actions)])
            /\ ShadowStep([raised |-> r.raised, next |-> "", pos |-> 0],
                          [db |-> rs.db, actions |-> rs.actions, raised |-> rs.raised,
                           next |-> "", pos |-> 0])
    /\ UNCHANGED <<lim, now, tz, config, friends_file, sessions,
                   shutdown_requested, mode, friends, gen, reel, analysis,
                   share_pos, reels_processed, actions_since_cooldown>>

\* process_engagement: the share decision, one _do_share call up to its log row
ShareStep ==
    /\ pc = "share"
    /\ \E o \in AdmissibleOutcomes :
        LET r == ShareDecision(db, friends, share_pos, reel, analysis, EngagerDryRun, o)
            rs == ShareDecision(shadow.db, friends, share_pos, reel, analysis, FALSE, LiveOk(o))
        IN  /\ db' = r.db
            /\ actions' = actions
            /\ share_pos' = r.pos
            /\ pc' = IF r.raised THEN "teardown" ELSE r.next
            /\ Executed([raised |-> r.raised, call |-> o.call,
                         faults |-> IF r.attempted THEN LogFaults(EngagerDryRun, o) ELSE 0,
                         called |-> r.attempted /\ ~EngagerDryRun,
                         gained |-> 0])
            /\ ShadowStep(r, [db |-> rs.db, actions |-> shadow.actions,
                              raised |-> rs.raised, next |-> rs.next, pos |-> rs.pos])
    /\ UNCHANGED <<lim, now, tz, config, friends_file, sessions,
                   shutdown_requested, mode, friends, gen, reel, analysis,
                   reels_processed, actions_since_cooldown>>

\* _do_share after its log row: increment_friend_share_count, return True,
\* and process_engagement's `actions.append(...); break`
IncrementStep ==
    /\ pc = "share_inc"
    /\ \E o \in AdmissibleOutcomes :
        LET r == ShareIncrement(db, actions, friends, share_pos, reel, analysis,
                                EngagerDryRun, o)
            rs == ShareIncrement(shadow.db, shadow.actions, friends, share_pos, reel,
                                 analysis, FALSE, LiveOk(o))
        IN  /\ db' = r.db
            /\ actions' = r.actions
            /\ share_pos' = r.pos
            /\ pc' = IF r.raised THEN "teardown" ELSE r.next
            /\ Executed([raised |-> r.raised, call |-> "ok",
                         faults |-> IncrementFaults(EngagerDryRun, o),
                         called |-> FALSE,
                         gained |-> Len(r.actions) - Len(actions)])
            /\ ShadowStep(r, rs)
    /\ UNCHANGED <<lim, now, tz, config, friends_file, sessions,
                   shutdown_requested, mode, friends, gen, reel, analysis,
                   reels_processed, actions_since_cooldown>>

\* SaveStep that adds every attempt of the pass, failed ones included, to
\* actions_since_cooldown
SaveStep_CountsAttempts ==
    /\ pc = "save"
    /\ actions_since_cooldown' =
           actions_since_cooldown + (Len(db.engagement_log) - hist.pass_from)
    /\ \E lands \in WriteOutcomes :
        /\ db' = IF lands
                 THEN save_reel_analysis(db, reel, analysis, action_str(actions))
                 ELSE db
        /\ shadow' = IF mode.dry_run
                     THEN IF lands
                          THEN [shadow EXCEPT !.db = save_reel_analysis(shadow.db, reel,
                                                   analysis, action_str(shadow.actions))]
                          ELSE shadow
                     ELSE Mirror(db', actions)
        /\ reels_processed' = IF lands THEN reels_processed + 1 ELSE reels_processed
        /\ pc' = IF lands THEN "finish" ELSE "teardown"
        /\ temp_files' = IF lands THEN temp_files ELSE temp_files \ {reel}
        /\ hist' = [hist EXCEPT
               !.saves[reel] = IF lands THEN @ + 1 ELSE @,
               !.stop_reason = IF lands THEN @ ELSE "error",
               !.write_failed = @ \/ ~lands,
               !.faults = IF lands THEN @ ELSE @ + 1]
    /\ UNCHANGED <<lim, now, tz, config, friends_file, sessions,
                   shutdown_requested, mode, friends, gen, reel, analysis,
                   actions, share_pos>>

\* run_session after process_engagement: the action count, save_reel_analysis,
\* reels_processed += 1
SaveStep ==
    /\ pc = "save"
    /\ actions_since_cooldown' = actions_since_cooldown + Len(actions)
    /\ \E lands \in WriteOutcomes :
        /\ db' = IF lands
                 THEN save_reel_analysis(db, reel, analysis, action_str(actions))
                 ELSE db
        /\ shadow' = IF mode.dry_run
                     THEN IF lands
                          THEN [shadow EXCEPT !.db = save_reel_analysis(shadow.db, reel,
                                                   analysis, action_str(shadow.actions))]
                          ELSE shadow
                     ELSE Mirror(db', actions)
        /\ reels_processed' = IF lands THEN reels_processed + 1 ELSE reels_processed
        /\ pc' = IF lands THEN "finish" ELSE "teardown"
        /\ temp_files' = IF lands THEN temp_files ELSE temp_files \ {reel}
        /\ hist' = [hist EXCEPT
               !.saves[reel] = IF lands THEN @ + 1 ELSE @,
               !.stop_reason = IF lands THEN @ ELSE "error",
               !.write_failed = @ \/ ~lands,
               !.faults = IF lands THEN @ ELSE @ + 1]
    /\ UNCHANGED <<lim, now, tz, config, friends_file, sessions,
                   shutdown_requested, mode, friends, gen, reel, analysis,
                   actions, share_pos>>

\* Finish with a cooldown that leaves actions_since_cooldown as it is
Finish_NoReset ==
    /\ pc = "finish"
    /\ pc' = "feed"
    /\ actions_since_cooldown' = actions_since_cooldown
    /\ hist' = [hist EXCEPT
           !.cooldowns = IF actions_since_cooldown >= config.cooldown_after_actions
                         THEN @ + 1 ELSE @,
           !.waits = @ + 1,
           !.pass_from = 0]
    /\ temp_files' = temp_files \ {reel}
    /\ reel' = 0
    /\ analysis' = NeutralAnalysis
    /\ actions' = <<>>
    /\ shadow' = [shadow EXCEPT !.actions = <<>>]
    /\ UNCHANGED <<lim, now, tz, config, friends_file, db, sessions,
                   shutdown_requested, mode, friends, gen,
                   share_pos, reels_processed>>

\* run_session, the end of the loop body: the cooldown test, the finally that
\* unlinks the video, wait_with_jitter
Finish ==
    /\ pc = "finish"
    /\ pc' = "feed"
    /\ actions_since_cooldown' =
           IF actions_since_cooldown >= config.cooldown_after_actions
           THEN 0 ELSE actions_since_cooldown
    /\ hist' = [hist EXCEPT
           !.cooldowns = IF actions_since_cooldown >= config.cooldown_after_actions
                         THEN @ + 1 ELSE @,
           !.waits = @ + 1,
           !.pass_from = 0,
           !.analyzer_failed = FALSE]
    /\ temp_files' = temp_files \ {reel}
    /\ reel' = 0
    /\ analysis' = NeutralAnalysis
    /\ actions' = <<>>
    /\ shadow' = [shadow EXCEPT !.actions = <<>>]
    /\ UNCHANGED <<lim, now, tz, config, friends_file, db, sessions,
                   shutdown_requested, mode, friends, gen,
                   share_pos, reels_processed>>

\* Teardown without the recomputation of today's daily_stats row
Teardown_NoRecompute ==
    /\ pc = "teardown"
    /\ \E lands \in WriteOutcomes :
        /\ db' = db
        /\ temp_files' = IF lands THEN {} ELSE temp_files
        /\ pc' = IF lands THEN "stopped" ELSE "crashed"
        /\ hist' = [hist EXCEPT !.write_failed = @ \/ ~lands,
                                !.faults = IF lands THEN @ ELSE @ + 1,
                                !.teardowns = @ + 1]
    /\ ProcessGone
    /\ UNCHANGED <<lim, now, tz, config, friends_file, sessions>>

\* run_session, the outer finally: update_daily_stats, the summary,
\* cleanup_temp_files, db.close; then the process ends
Teardown ==
    /\ pc = "teardown"
    /\ \E lands \in WriteOutcomes :
        /\ db' = IF lands THEN update_daily_stats(db) ELSE db
        /\ temp_files' = IF lands THEN {} ELSE temp_files
        /\ pc' = IF lands THEN "stopped" ELSE "crashed"
        /\ hist' = [hist EXCEPT !.write_failed = @ \/ ~lands,
                                !.faults = IF lands THEN @ ELSE @ + 1,
                                !.teardowns = @ + 1]
    /\ ProcessGone
    /\ UNCHANGED <<lim, now, tz, config, friends_file, sessions>>

Next ==
    \/ Tick
    \/ EditFriends
    \/ signal_handler
    \/ Kill
    \/ StartSession
    \/ FetchBatch
    \/ ScanBatch
    \/ FeedNext
    \/ LoopTop
    \/ Download
    \/ Analyze
    \/ LikeStep
    \/ CommentStep
    \/ ShareStep
    \/ IncrementStep
    \/ SaveStep
    \/ Finish
    \/ Teardown

Spec == Init /\ [][Next]_vars

\* the steps of the running process itself: a started session keeps executing
SessionStep ==
    \/ FetchBatch
    \/ ScanBatch
    \/ FeedNext
    \/ LoopTop
    \/ Download
    \/ Analyze
    \/ LikeStep
    \/ CommentStep
    \/ ShareStep
    \/ IncrementStep
    \/ SaveStep
    \/ Finish
    \/ Teardown

FairSpec == Init /\ [][Next]_vars /\ WF_vars(SessionStep)

(* ---------------------------- observations ---------------------------- *)
ActionKinds == {"like", "comment", "share"}

\* the daily cap config.json gives an action kind
DailyCap(kind) ==
    CASE kind = "like" -> config.max_likes_per_day
      [] kind = "comment" -> config.max_comments_per_day
      [] kind = "share" -> config.max_shares_per_day

\* the cap friends_config.json gives a friend whenever it lists them
RecipientCap(u) ==
    IF u = FriendA.username THEN FriendA.max_shares_per_day ELSE FriendB.max_shares_per_day

Rows == 1..Len(db.engagement_log)

\* successful share rows addressed to friend u and dated `date`
SuccessfulShares(u, date) ==
    Cardinality({i \in Rows :
        /\ db.engagement_log[i].action_type = "share"
        /\ db.engagement_log[i].friend_username = u
        /\ db.engagement_log[i].success
        /\ db.engagement_log[i].date = date})

\* successful rows of one kind for one reel
SuccessfulActions(reel_id, kind) ==
    Cardinality({i \in Rows :
        /\ db.engagement_log[i].reel_id = reel_id
        /\ db.engagement_log[i].action_type = kind
        /\ db.engagement_log[i].success})

\* a decision pass (process_engagement and the rest of the loop body) is under way
InPass == pc \in {"like", "comment", "share", "share_inc", "save", "finish"}

\* the share rows the current decision pass has written for its reel
PassShareRows ==
    {i \in Rows :
        /\ i > hist.pass_from
        /\ db.engagement_log[i].reel_id = reel
        /\ db.engagement_log[i].action_type = "share"}

\* the session is between two items
ItemBoundary == pc \in {"fetch", "scan", "feed", "top"}

(* ------------------------------- claims ------------------------------- *)
\* C1: on every calendar day and for every action kind, the successful
\* engagement rows dated that day never exceed the configured daily cap.
QuotaCeiling ==
    \A kind \in ActionKinds, d \in Dates : CountLog(db, kind, d) <= DailyCap(kind)

\* C2: for every friend and day, the successful share rows addressed to the
\* friend and dated that day never exceed the friend's max_shares_per_day.
RecipientCeiling ==
    \A u \in Usernames, d \in Dates : SuccessfulShares(u, d) <= RecipientCap(u)

NoDoubleAnalysis ==
    \A i \in ItemIds : hist.analyzer_calls[i] <= 1 /\ hist.saves[i] <= 1

\* C5: over any sequence of sessions, no reel has more than one successful
\* like row nor more than one successful comment row.
NoDoubleAction ==
    \A i \in ItemIds, kind \in {"like", "comment"} : SuccessfulActions(i, kind) <= 1

\* C6: at every point of a --dry-run session the store (engagement rows,
\* share counters, saved reels) and the actions list equal those of the same
\* session run live with every platform call succeeding, and both runs took
\* the same branches.
DryRunParity ==
    mode.dry_run => shadow.agree /\ shadow.db = db /\ shadow.actions = actions

\* C6 witness: a dry-run pass that liked, commented and shared, its counter
\* incremented.
DryRunActed ==
    /\ mode.dry_run
    /\ pc = "finish"
    /\ Len(actions) = 3
    /\ \E u \in Usernames : db.friend_shares[u][LocalDate] > 0

\* C7 as stated: at every item boundary the cooldowns performed equal
\* floor(S / N), S the successful actions of the session so far and N
\* cooldown_after_actions.
CooldownPeriodicity ==
    ItemBoundary =>
        hist.cooldowns = hist.successes \div config.cooldown_after_actions

\* C7, amended: at every item boundary the counter is below N; every
\* cooldown consumed at least N counted actions and, an item adding at most
\* three, at most N + 2: what exceeds N at a reset is dropped.
CooldownBounds ==
    ItemBoundary =>
        LET N == config.cooldown_after_actions
        IN  /\ actions_since_cooldown < N
            /\ hist.cooldowns * N + actions_since_cooldown <= hist.successes
            /\ hist.successes <= hist.cooldowns * (N + 2) + actions_since_cooldown

\* C7 witness: one cooldown after four successful actions, the third one
\* dropped by the reset.
OvershootDropped ==
    /\ ItemBoundary
    /\ hist.cooldowns = 1
    /\ hist.successes = 4
    /\ actions_since_cooldown = 1

\* C8: the first thing an iteration does is test shutdown_requested, the
\* STOP file, the deadline and the reel count, in that order; if one holds
\* the loop ends for that reason with the store, the analyzer and the temp
\* files untouched, even for a reel the duplicate check would skip; otherwise
\* the duplicate check follows.  Download is entered from that check only,
\* and once the loop has ended nothing more is analyzed, logged or saved.
StopChecksFirst ==
    /\ [][(pc = "top" /\ pc' \notin {"top", "killed"}) =>
            LET why == IF shutdown_requested THEN "shutdown"
                       ELSE IF hist'.top.stop_file THEN "stop_file"
                       ELSE IF hist'.top.time_up THEN "deadline"
                       ELSE IF reels_processed >= config.max_reels_per_session
                            THEN "max_reels"
                       ELSE ""
            IN  /\ hist'.stop_reason = why
                /\ why # "" =>
                       /\ pc' = "teardown"
                       /\ db' = db
                       /\ temp_files' = temp_files
                       /\ hist'.analyzer_calls = hist.analyzer_calls
                /\ why = "" =>
                       pc' = IF reel_already_analyzed(db, reel) THEN "feed" ELSE "download"
         ]_vars
    /\ [][(pc' = "download" /\ pc # "download") => pc = "top"]_vars
    /\ [][pc = "teardown" =>
            /\ pc' \in {"teardown", "stopped", "crashed", "killed"}
            /\ db'.engagement_log = db.engagement_log
            /\ db'.reels_analyzed = db.reels_analyzed
            /\ hist'.analyzer_calls = hist.analyzer_calls
         ]_vars

\* C8 witness: the loop ended on the STOP file, the deadline passed as well,
\* with a reel yielded but not analyzed.
StoppedOnStopFile ==
    /\ pc = "teardown"
    /\ hist.stop_reason = "stop_file"
    /\ hist.top.time_up
    /\ reel # 0
    /\ hist.analyzer_calls[reel] = 0

\* C9: a signal only sets shutdown_requested; a reel in flight goes on through
\* its remaining steps (it leaves them only by finishing or on an error);
\* the flag ends the loop at the next stop check; and with the flag set the
\* analyzer runs only for the reel that was in flight when the signal came.
NoMidItemPreemption ==
    /\ [][hist'.signals # hist.signals =>
            /\ shutdown_requested'
            /\ <<pc, db, temp_files, gen, reel, analysis, actions, share_pos,
                 reels_processed, actions_since_cooldown>>'
               = <<pc, db, temp_files, gen, reel, analysis, actions, share_pos,
                   reels_processed, actions_since_cooldown>>
         ]_vars
    /\ [][(pc \in InFlight /\ pc' # pc) =>
            \/ pc' \in InFlight \cup {"feed", "killed"}
            \/ pc' = "teardown" /\ hist'.stop_reason = "error"
         ]_vars
    /\ [][(pc = "top" /\ shutdown_requested /\ pc' \notin {"top", "killed"}) =>
            pc' = "teardown" /\ hist'.stop_reason = "shutdown"
         ]_vars
    /\ [][(shutdown_requested /\ hist'.analyzer_calls # hist.analyzer_calls) =>
            hist.signalled = "item"
         ]_vars

\* C9 witness: a first session signalled while its only reel was in flight;
\* the reel was acted on, saved and waited for, then the loop ended on the flag.
SignalledItemCompleted ==
    /\ pc = "stopped"
    /\ sessions = 1
    /\ hist.signalled = "item"
    /\ hist.stop_reason = "shutdown"
    /\ hist.waits = 1
    /\ \E i \in ItemIds :
           db.reels_analyzed[i].present /\ db.reels_analyzed[i].action_taken # "none"

\* C10: once shutdown_requested is set, the session ends, whatever the feed
\* returns.
ShutdownEndsSession ==
    shutdown_requested ~> (pc \in Stopped)


PriorRows(kind, n) ==
    [i \in 1..n |->
        [reel_id |-> MaxItems, action_type |-> kind, friend_username |-> "",
         success |-> TRUE, error_message |-> "", date |-> 0]]

\* a store whose log holds l likes and c comments of today
PriorDb(l, c) ==
    [EmptyDb EXCEPT !.engagement_log = PriorRows("like", l) \o PriorRows("comment", c)]

\* config.json documents with every pair of thresholds and every like and
\* comment cap up to MaxPrior
DecisionConfigs ==
    {[cfg EXCEPT !.humor_threshold = ht, !.comment_threshold = ct,
                 !.max_likes_per_day = ml, !.max_comments_per_day = mc] :
        cfg \in Configs, ht \in Scores, ct \in Scores,
        ml \in 0..MaxPrior, mc \in 0..MaxPrior}

\* process_engagement is entered for reel 1 with any analysis result, any
\* thresholds and caps and any number of likes and comments already logged today
DecisionInit ==
    /\ lim = Quiet
    /\ now = 0
    /\ tz = 0
    /\ config \in DecisionConfigs
    /\ friends_file = <<>>
    /\ temp_files = {1}
    /\ db \in {PriorDb(l, c) : l \in 0..MaxPrior, c \in 0..MaxPrior}
    /\ pc = "like"
    /\ sessions = 1
    /\ shutdown_requested = FALSE
    /\ mode \in {m \in Modes : ~m.analyze_only}
    /\ friends = <<>>
    /\ gen = [NewGen EXCEPT !.seen_pks = {1}]
    /\ reel = 1
    /\ analysis \in AllAnalysisResults
    /\ actions = <<>>
    /\ share_pos = 0
    /\ reels_processed = 0
    /\ actions_since_cooldown = 0
    /\ shadow = Mirror(db, <<>>)
    /\ hist = [analyzer_calls |-> [i \in ItemIds |-> IF i = 1 THEN 1 ELSE 0],
               saves |-> [i \in ItemIds |-> 0],
               cooldowns |-> 0, successes |-> 0, calls |-> 0, waits |-> 0,
               stop_reason |-> "", write_failed |-> FALSE, signalled |-> "",
               top |-> NoObservation, faults |-> 0, failures |-> 0,
               signals |-> 0, kills |-> 0, edits |-> 0,
               pass_from |-> Len(db.engagement_log),
               teardowns |-> 0, analyzer_failed |-> FALSE, startup |-> GoodStartup]

DecisionNext ==
    \/ LikeStep
    \/ CommentStep

DecisionSpec == DecisionInit /\ [][DecisionNext]_vars

\* the step appended exactly one row, of the given kind, for the reel of the pass
Attempted(kind) ==
    /\ Len(db'.engagement_log) = Len(db.engagement_log) + 1
    /\ db'.engagement_log[Len(db'.engagement_log)].reel_id = reel
    /\ db'.engagement_log[Len(db'.engagement_log)].action_type = kind

\* C12: a like is attempted iff humor_score >= humor_threshold and today's
\* likes are below max_likes_per_day; a comment is attempted iff humor_score
\* >= comment_threshold, the suggested comment is not empty and today's
\* comments are below max_comments_per_day; whatever the like branch did, and
\* a branch that attempts nothing leaves the store as it is.
LikeCommentDecision ==
    /\ [][pc = "like" =>
            /\ pc' = "comment"
            /\ IF /\ analysis.humor_score >= config.humor_threshold
                  /\ CountLog(db, "like", LocalDate) < config.max_likes_per_day
               THEN Attempted("like")
               ELSE db' = db
         ]_vars
    /\ [][pc = "comment" =>
            /\ pc' = "share"
            /\ IF /\ analysis.humor_score >= config.comment_threshold
                  /\ analysis.suggested_comment # ""
                  /\ CountLog(db, "comment", LocalDate) < config.max_comments_per_day
               THEN Attempted("comment")
               ELSE db' = db
         ]_vars

\* C12 witness: a score at the like threshold exactly, the like cap used
\* up, and the comment made without a like.
CommentWithoutLike ==
    /\ pc = "share"
    /\ analysis.humor_score = config.humor_threshold
    /\ CountLog(db, "like", LocalDate) = config.max_likes_per_day
    /\ SuccessfulActions(reel, "like") = 0
    /\ SuccessfulActions(reel, "comment") = 1


(* --------------------------- share recipients --------------------------- *)
\* the friends of the running engager whose interests match the category of
\* the reel at hand, in declaration order
Matching == _find_matching_friends(friends, analysis.humor_category)

\* the friend's friend_shares row of today is below the friend's own cap
BelowOwnCap(f) == db.friend_shares[f.username][LocalDate] < f.max_shares_per_day

\* position in Matching of the first friend at or after `from` that is below
\* its own cap, 0 when there is none
FirstEligibleFrom(from) ==
    IF \E k \in from..Len(Matching) : BelowOwnCap(Matching[k])
    THEN CHOOSE k \in from..Len(Matching) :
            /\ BelowOwnCap(Matching[k])
            /\ \A j \in from..(k - 1) : ~BelowOwnCap(Matching[j])
    ELSE 0

ActionFailed ==
    /\ pc \in {"like", "comment", "share"}
    /\ hist'.failures > hist.failures
    /\ hist'.faults = hist.faults

\* C14: a platform action that fails leaves a failure row and nothing else:
\* today's successful counts of every kind, the friend_shares counters and
\* the actions list are unchanged; process_engagement goes on with its next
\* branch (after a failed share, with the next friend), the reel is saved
\* with its analysis, the loop goes on to the next feed item, and the
\* session never ends on an error unless a store write failed.
FailedActionContained ==
    /\ [][ActionFailed =>
            /\ pc' = CASE pc = "like" -> "comment"
                       [] pc = "comment" -> "share"
                       [] pc = "share" -> "share"
            /\ Attempted(pc)
            /\ ~db'.engagement_log[Len(db'.engagement_log)].success
            /\ \A kind \in ActionKinds :
                CountLog(db', kind, LocalDate) = CountLog(db, kind, LocalDate)
            /\ db'.friend_shares = db.friend_shares
            /\ actions' = actions
            /\ actions_since_cooldown' = actions_since_cooldown
         ]_vars
    /\ [](pc = "finish" /\ ~hist.write_failed =>
            /\ db.reels_analyzed[reel].present
            /\ db.reels_analyzed[reel].humor_score = analysis.humor_score
            /\ db.reels_analyzed[reel].humor_category = analysis.humor_category)
    /\ [][pc = "finish" /\ pc' \notin {"finish", "killed"} => pc' = "feed"]_vars
    /\ [](~hist.write_failed => hist.stop_reason # "error")

\* C14 witness: the like of an earlier reel of this session failed, that
\* reel is saved, and the session is deciding on the next reel.
NextItemAfterFailedLike ==
    /\ pc = "like"
    /\ sessions = 1
    /\ reels_processed = 1
    /\ \E i \in Rows :
        /\ db.engagement_log[i].action_type = "like"
        /\ ~db.engagement_log[i].success
        /\ db.engagement_log[i].reel_id # reel
        /\ db.reels_analyzed[db.engagement_log[i].reel_id].present


(* ------------------------- failing store writes ------------------------- *)
\* C15: once a store write of the session has failed, the session decides
\* and executes nothing more: it is in its teardown or over.
WriteFailureFatal ==
    hist.write_failed => pc \in {"teardown"} \cup Stopped


(* --------------------------- analyzer errors --------------------------- *)
\* C16: a reel whose analyzer call erred or got a malformed reply is
\* processed with the neutral result (score 0, category "unknown", empty
\* suggested comment) and saved with it.
AnalysisErrorNeutral ==
    /\ hist.analyzer_failed /\ InPass => analysis = NeutralAnalysis
    /\ hist.analyzer_failed /\ pc = "finish" /\ ~hist.write_failed =>
        /\ db.reels_analyzed[reel].present
        /\ db.reels_analyzed[reel].humor_score = NeutralAnalysis.humor_score
        /\ db.reels_analyzed[reel].humor_category = NeutralAnalysis.humor_category


(* --------------------------- failing downloads --------------------------- *)
\* C17: when download_reel returns None the loop goes straight to the next
\* feed item: the analyzer is not called, no platform action is called, the
\* store is unchanged and holds no reels_analyzed row for the reel, and the
\* counters of the session stay as they are.
DownloadFailureSkips ==
    [][pc = "download" /\ hist'.failures > hist.failures =>
        /\ pc' = "feed"
        /\ db' = db
        /\ ~reel_already_analyzed(db', reel)
        /\ hist'.analyzer_calls = hist.analyzer_calls
        /\ hist'.calls = hist.calls
        /\ reels_processed' = reels_processed
        /\ actions_since_cooldown' = actions_since_cooldown
    ]_vars

\* C17 witness: the first reel of the feed could not be downloaded, nothing
\* was stored for it, and the session is deciding on the second reel.
SecondItemAfterFailedDownload ==
    /\ pc = "like"
    /\ sessions = 1
    /\ hist.failures = 1
    /\ ~hist.analyzer_failed
    /\ hist.calls = 0
    /\ \A i \in ItemIds : hist.analyzer_calls[i] = (IF i = reel THEN 1 ELSE 0)
    /\ \A i \in ItemIds : ~db.reels_analyzed[i].present
    /\ db.engagement_log = <<>>
    /\ gen.seen_pks = ItemIds


PassRows ==
    {i \in Rows : i > hist.pass_from /\ db.engagement_log[i].reel_id = reel}

\* C19: in a session started with --dry-run no step calls a platform like,
\* comment or share, and when process_engagement has returned, the rows it
\* wrote for the reel are all successful and as many as the actions it
\* reported (one per action emitted).
DryRunRecordsOnly ==
    /\ [][mode.dry_run /\ mode'.dry_run => hist'.calls = hist.calls]_vars
    /\ [](mode.dry_run => hist.calls = 0)
    /\ [](mode.dry_run /\ pc \in {"save", "finish"} /\ ~hist.write_failed =>
            /\ \A i \in PassRows : db.engagement_log[i].success
            /\ Cardinality(PassRows) = Len(actions)
            /\ \A kind \in ActionKinds :
                Cardinality({i \in PassRows : db.engagement_log[i].action_type = kind}) <= 1)

\* C19 witness: a dry-run pass over a reel qualifying for like, comment and
\* share has written three successful rows without a platform call.
DryRunThreeRecords ==
    /\ mode.dry_run
    /\ pc = "save"
    /\ Cardinality(PassRows) = 3
    /\ \A i \in PassRows : db.engagement_log[i].success
    /\ {db.engagement_log[i].action_type : i \in PassRows} = ActionKinds
    /\ hist.calls = 0


(* -------------------------------- startup -------------------------------- *)
\* C20: a startup whose config.json lacks openai_api_key while the
\* OPENAI_API_KEY environment variable is set runs the session; main exits
\* before the session only when the key is absent from both (the Instagram
\* credentials being present).
EnvironmentFallback ==
    /\ hist.startup.instagram_username
    /\ hist.startup.instagram_password
    => (pc = "config_exit" <=> ~hist.startup.openai_api_key /\ ~hist.startup.env_key)


(* ------------------------------ exit status ------------------------------ *)
\* The exit status of the process once it is over: sys.exit(1) on a config
\* without its required keys; run_session returns normally after a failed
\* login and after its finally block, also when the except clause caught a
\* session error, and main then falls off its end; an exception raised inside
\* the finally block leaves main uncaught; a killed process reports its signal.
exit_status ==
    CASE pc = "config_exit" -> "1"
      [] pc = "login_failed" -> "0"
      [] pc = "stopped" -> "0"
      [] pc = "crashed" -> "1"
      [] pc = "killed" -> "signal"
      [] OTHER -> "running"

\* C21: a run ended by a fatal error (config error, failed login, failed
\* store write) exits with a non-zero status, and a run that met only
\* per-item errors exits with status zero.
FatalExitsNonZero ==
    /\ pc \in {"config_exit", "login_failed"} => exit_status # "0"
    /\ pc \in {"stopped", "crashed"} /\ hist.write_failed => exit_status # "0"
    /\ pc = "stopped" /\ ~hist.write_failed => exit_status = "0"


(* --------------------------- share and the score --------------------------- *)
\* the reel at hand is below humor_threshold and below comment_threshold
LowScore ==
    /\ analysis.humor_score < config.humor_threshold
    /\ analysis.humor_score < config.comment_threshold

\* C22: a reel below both thresholds reaches the share decision with no like
\* and no comment row, and the share decision treats it like any other reel:
\* when today's shares are below max_shares_per_day and a matching friend is
\* below its own cap, the share to the first such friend is attempted.
LowScoreStillShared ==
    /\ [](pc = "share" /\ share_pos = 0 /\ LowScore => PassRows = {})
    /\ [][(/\ pc = "share"
           /\ share_pos = 0
           /\ LowScore
           /\ pc' \in {"share", "share_inc", "save"}
           /\ (pc' # pc \/ share_pos' # share_pos)) =>
            IF /\ CountLog(db, "share", LocalDate) < config.max_shares_per_day
               /\ FirstEligibleFrom(1) > 0
            THEN /\ Attempted("share")
                 /\ db'.engagement_log[Len(db'.engagement_log)].friend_username
                        = Matching[FirstEligibleFrom(1)].username
            ELSE db' = db
         ]_vars

\* C22 witness: a reel below both thresholds has been shared and nothing else.
LowScoreShared ==
    /\ pc = "save"
    /\ LowScore
    /\ Len(actions) = 1
    /\ Cardinality(PassRows) = 1
    /\ \A i \in PassRows :
        /\ db.engagement_log[i].action_type = "share"
        /\ db.engagement_log[i].success


(* ---------------------- the share scan on any directory ---------------------- *)
MaxInterests == 2

\* the interest tags of the directories below: tags that have nothing to do
\* with "unknown", one that contains it, one that it contains, and the empty tag
Tags == {STR_gaming, STR_DARK, STR_Unknowns, STR_now, STR_empty}

\* the friends_config.json documents with up to two friends, each with up to
\* MaxInterests tags
ShareDirectories ==
    LET lists == SeqsUpTo(Tags, MaxInterests)
        a(l) == [username |-> "a", interests |-> l, max_shares_per_day |-> 1]
        b(l) == [username |-> "b", interests |-> l, max_shares_per_day |-> 1]
    IN  {<<>>} \cup {<<a(l)>> : l \in lists}
               \cup {<<a(l), b(m)>> : l \in lists, m \in lists}

\* process_engagement has reached its share decision for reel 1, with any
\* analysis result and any directory loaded; nothing was logged today
MatchInit ==
    /\ lim = Quiet
    /\ now = 0
    /\ tz = 0
    /\ config \in Configs
    /\ friends_file \in ShareDirectories
    /\ temp_files = {1}
    /\ db = EmptyDb
    /\ pc = "share"
    /\ sessions = 1
    /\ shutdown_requested = FALSE
    /\ mode = LiveMode
    /\ friends = _load_friends(friends_file)
    /\ gen = [NewGen EXCEPT !.seen_pks = {1}]
    /\ reel = 1
    /\ analysis \in AllAnalysisResults
    /\ actions = <<>>
    /\ share_pos = 0
    /\ reels_processed = 0
    /\ actions_since_cooldown = 0
    /\ shadow = Mirror(db, <<>>)
    /\ hist = [analyzer_calls |-> [i \in ItemIds |-> IF i = 1 THEN 1 ELSE 0],
               saves |-> [i \in ItemIds |-> 0],
               cooldowns |-> 0, successes |-> 0, calls |-> 0, waits |-> 0,
               stop_reason |-> "", write_failed |-> FALSE, signalled |-> "",
               top |-> NoObservation, faults |-> 0, failures |-> 0,
               signals |-> 0, kills |-> 0, edits |-> 0,
               pass_from |-> 0,
               teardowns |-> 0, analyzer_failed |-> FALSE, startup |-> GoodStartup]

MatchNext ==
    \/ ShareStep
    \/ IncrementStep

MatchSpec == MatchInit /\ [][MatchNext]_vars

\* some friend of the loaded directory has an interest tag that contains s
SomeTagContains(s) ==
    \E i \in 1..Len(friends) : \E j \in 1..Len(friends[i].interests) :
        Contains(s, friends[i].interests[j])

\* some friend of the loaded directory has an interest tag that s contains
SomeTagWithin(s) ==
    \E i \in 1..Len(friends) : \E j \in 1..Len(friends[i].interests) :
        Contains(friends[i].interests[j], s)

\* C23 as stated: with the category "unknown" and no interest tag containing
\* "unknown", the pass writes no share row.
UnknownNeverShared ==
    /\ analysis.humor_category = STR_unknown
    /\ ~SomeTagContains(STR_unknown)
    => PassShareRows = {}

\* C23, amended: with the category "unknown", no interest tag containing
\* "unknown" and no interest tag contained in "unknown" (the empty tag is
\* contained in every category), the share decision attempts nothing and
\* the pass writes no share row.
UnknownUnmatchedNeverShared ==
    /\ [](/\ analysis.humor_category = STR_unknown
          /\ ~SomeTagContains(STR_unknown)
          /\ ~SomeTagWithin(STR_unknown)
          => PassShareRows = {} /\ pc \in {"share", "save"})
    /\ [][(/\ pc = "share"
           /\ analysis.humor_category = STR_unknown
           /\ ~SomeTagContains(STR_unknown)
           /\ ~SomeTagWithin(STR_unknown)) =>
            /\ pc' = "save"
            /\ db' = db
            /\ hist'.calls = hist.calls
         ]_vars

\* C23 witness: two friends with tags, none related to "unknown", and the
\* share decision has passed over them for a reel of category "unknown".
UnknownPassedOver ==
    /\ pc = "save"
    /\ analysis.humor_category = STR_unknown
    /\ Len(friends) = 2
    /\ \A i \in 1..Len(friends) : Len(friends[i].interests) = MaxInterests
    /\ ~SomeTagContains(STR_unknown)
    /\ ~SomeTagWithin(STR_unknown)
    /\ db.engagement_log = <<>>


(* ------------------------------ record order ------------------------------ *)
\* the place of an action kind in the order like, comment, share
Rank(kind) == CASE kind = "like" -> 1 [] kind = "comment" -> 2 [] OTHER -> 3

\* within the rows of one decision pass: like rows, then comment rows, then
\* share rows
PassOrder ==
    \A i, j \in PassRows :
        i < j => Rank(db.engagement_log[i].action_type) <= Rank(db.engagement_log[j].action_type)

\* C24: the engagement_log rows of every reel come in the order like,
\* comment, share, whichever of them succeeded, and they are all in the log
\* before the reel's reels_analyzed row is written: a step that appends a row
\* for a reel finds the reel unsaved.
RecordOrder ==
    /\ \A i, j \in Rows :
        /\ i < j
        /\ db.engagement_log[i].reel_id = db.engagement_log[j].reel_id
        => Rank(db.engagement_log[i].action_type) <= Rank(db.engagement_log[j].action_type)
    /\ pc \in {"like", "comment", "share", "share_inc", "save"} =>
        ~db.reels_analyzed[reel].present


(* --------------------------- one row per attempt --------------------------- *)
\* C25: every attempt leaves one engagement_log row whose success flag is
\* the outcome of the platform call, and every row of a failed attempt, the
\* call having raised or returned False, carries an error text: live
\* sessions whose store takes every write have as many rows as platform
\* calls, and every failure row has a non-empty error_message.
OneRecordPerAttempt ==
    /\ \A i \in Rows :
        db.engagement_log[i].success <=> db.engagement_log[i].error_message = ""
    /\ /\ mode = LiveMode
       /\ InPass
       /\ ~hist.write_failed
       => Cardinality({i \in PassRows : ~db.engagement_log[i].success}) <= hist.failures


(* ------------------------------ orphan rows ------------------------------ *)
\* C26: between two items and once the session is over, every
\* engagement_log row names a reel that has its reels_analyzed row.
NoOrphanRecords ==
    ItemBoundary \/ pc = "stopped" =>
        \A i \in Rows : db.reels_analyzed[db.engagement_log[i].reel_id].present


(* --------------------------------- rollup --------------------------------- *)
\* the successful rows of one kind that carry the date of today's daily_stats row
SuccessfulToday(kind) ==
    {i \in Rows :
        /\ db.engagement_log[i].action_type = kind
        /\ db.engagement_log[i].success
        /\ db.engagement_log[i].date = LocalDate}

CounterStepsOnly ==
    [][db'.friend_shares # db.friend_shares /\ pc # pc' /\ pc \in Running =>
        /\ pc = "share_inc"
        /\ LET last == db.engagement_log[Len(db.engagement_log)]
           IN  /\ last.action_type = "share"
               /\ last.success
               /\ last.reel_id = reel
               /\ db'.friend_shares =
                    [db.friend_shares EXCEPT ![last.friend_username][LocalDate] = @ + 1]
    ]_vars

\* C28: no friend_shares counter exceeds the friend's max_shares_per_day,
\* and every successful share is counted: when process_engagement has
\* returned, the friend of every successful share row of the pass has a
\* counter of at least one.
ShareCounterTracksShares ==
    /\ \A u \in Usernames, d \in Dates : db.friend_shares[u][d] <= RecipientCap(u)
    /\ pc \in {"save", "finish"} =>
        \A i \in PassShareRows :
            db.engagement_log[i].success =>
                \E d \in Dates : db.friend_shares[db.engagement_log[i].friend_username][d] >= 1


(* ------------------------------ stale counters ------------------------------ *)
\* C29: once the engager of a session has loaded its friends, friend_shares
\* holds no count for a username that is not in the loaded list, whatever
\* the list, the empty one included.
NoStaleCounters ==
    pc \in Running =>
        \A u \in Usernames \ {friends[i].username : i \in 1..Len(friends)} :
            \A d \in Dates : db.friend_shares[u][d] = 0


(* ------------------------------- media files ------------------------------- *)
\* C30: between two items and once the session is over, no downloaded media
\* file is left in temp_reels.
NoMediaAtBoundary ==
    ItemBoundary \/ pc = "stopped" => temp_files = {}


(* --------------------------------- pacing --------------------------------- *)
\* C31: the loop goes back to the feed generator after a saved reel and
\* after a failed download only through one wait_with_jitter.
PacedBetweenItems ==
    [][(pc = "download" \/ pc = "finish") /\ pc' = "feed" =>
        hist'.waits = hist.waits + 1
    ]_vars


(* -------------------------------- feed errors -------------------------------- *)
\* C32: a clips/discover request that raises ends the generator like an
\* empty batch does: the step changes nothing but the reason of the stop, so
\* the reels yielded before it were processed as in a session whose feed
\* ended there; nothing is fetched afterwards, and the session goes to its
\* teardown, which C11 shows to be the one every session runs.
FeedErrorEndsFeed ==
    /\ [][pc = "fetch" /\ pc' \notin {"fetch", "killed"} =>
            \/ pc' = "scan" /\ gen'.items # <<>> /\ hist' = hist
            \/ /\ pc' = "teardown"
               /\ hist'.stop_reason \in {"feed_error", "feed_end"}
               /\ [hist' EXCEPT !.stop_reason = ""] = [hist EXCEPT !.stop_reason = ""]
               /\ gen' = gen
               /\ db' = db
               /\ reels_processed' = reels_processed
               /\ temp_files' = temp_files
         ]_vars
    /\ [][hist.stop_reason = "feed_error" /\ pc \in Running =>
            /\ pc' \in {"teardown", "stopped", "crashed", "killed"}
            /\ pc' = "teardown" => gen' = gen
            /\ hist'.analyzer_calls = hist.analyzer_calls
         ]_vars
    /\ [](hist.stop_reason = "feed_error" /\ pc = "stopped" => hist.teardowns = 1)

\* C32 witness: the feed erred after one reel had been yielded and saved, and
\* the session is over after its teardown.
FeedErrorAfterOneItem ==
    /\ pc = "stopped"
    /\ hist.stop_reason = "feed_error"
    /\ hist.waits = 1
    /\ \E i \in DOMAIN db.reels_analyzed : db.reels_analyzed[i].present
    /\ hist.teardowns = 1
    /\ db.daily_stats[LocalDate].present


\* sessions whose max_reels_per_session is any value up to the number of
\* distinct reels the feed can hand out
BudgetConfigs ==
    {[cfg EXCEPT !.max_reels_per_session = m] : cfg \in Configs, m \in 1..MaxItems}

\* main with config.json holding one of BudgetConfigs; the runs are quiet or
\* meet failing platform calls (a failed download)
BudgetInit ==
    /\ lim \in {Quiet, [Quiet EXCEPT !.failures = MaxCallFailures]}
    /\ now = 0
    /\ tz = 0
    /\ config \in BudgetConfigs
    /\ friends_file = <<FriendA, FriendB>>
    /\ temp_files = {}
    /\ db = EmptyDb
    /\ pc = "idle"
    /\ sessions = 0
    /\ shutdown_requested = FALSE
    /\ mode = LiveMode
    /\ friends = <<>>
    /\ gen = NewGen
    /\ reel = 0
    /\ analysis = NeutralAnalysis
    /\ actions = <<>>
    /\ share_pos = 0
    /\ reels_processed = 0
    /\ actions_since_cooldown = 0
    /\ shadow = Mirror(EmptyDb, <<>>)
    /\ hist = [analyzer_calls |-> [i \in ItemIds |-> 0],
               saves |-> [i \in ItemIds |-> 0],
               cooldowns |-> 0, successes |-> 0, calls |-> 0, waits |-> 0,
               stop_reason |-> "", write_failed |-> FALSE, signalled |-> "",
               top |-> NoObservation, faults |-> 0, failures |-> 0,
               signals |-> 0, kills |-> 0, edits |-> 0, pass_from |-> 0,
               teardowns |-> 0, analyzer_failed |-> FALSE, startup |-> GoodStartup]

BudgetNext ==
    \/ StartSession
    \/ FetchBatch
    \/ ScanBatch
    \/ FeedNext
    \/ LoopTop
    \/ Download
    \/ Analyze
    \/ LikeStep
    \/ CommentStep
    \/ ShareStep
    \/ IncrementStep
    \/ SaveStep
    \/ Finish
    \/ Teardown

BudgetSpec == BudgetInit /\ [][BudgetNext]_vars

\* C33: the generator has handed out at most max_reels_per_session reels, the
\* reel in hand included; at the top of every iteration fewer than
\* max_reels_per_session reels have been saved; and the reels saved in a
\* session never exceed the reels taken from the feed, so a reel skipped as a
\* duplicate or for a failed download uses up budget.
FetchBudget ==
    /\ gen.count <= config.max_reels_per_session
    /\ pc \in {"top", "feed"} \cup InFlight =>
           /\ gen.count + 1 <= config.max_reels_per_session
           /\ reels_processed <= gen.count + 1
    /\ pc \notin {"top", "feed"} \cup InFlight /\ pc # "teardown" =>
           reels_processed <= gen.count
    /\ pc = "top" => reels_processed < config.max_reels_per_session
    /\ reels_processed <= config.max_reels_per_session

\* a second session whose whole budget of one reel went to a reel the store
\* already held: the feed is over and nothing was saved
DuplicateUsedBudget ==
    /\ pc = "teardown"
    /\ sessions = 2
    /\ config.max_reels_per_session = 1
    /\ gen.count = 1
    /\ reels_processed = 0
    /\ hist.failures = 0
    /\ hist.stop_reason = "feed_end"
    /\ \E i \in gen.seen_pks : db.reels_analyzed[i].present


(* ----------------------------- action summary ----------------------------- *)
\* the friends that have a successful share row for the reel
SuccessfulRecipients(reel_id) ==
    {db.engagement_log[i].friend_username : i \in
        {j \in Rows : /\ db.engagement_log[j].reel_id = reel_id
                      /\ db.engagement_log[j].action_type = "share"
                      /\ db.engagement_log[j].success}}

\* the action lists that name exactly the successful rows of the reel, in the
\* order like, comment, share:recipient
SuccessfulSummaries(reel_id) ==
    LET likes == IF SuccessfulActions(reel_id, "like") > 0 THEN <<"like">> ELSE <<>>
        comments == IF SuccessfulActions(reel_id, "comment") > 0 THEN <<"comment">> ELSE <<>>
        shares == IF SuccessfulRecipients(reel_id) = {} THEN {<<>>}
                  ELSE IF Cardinality(SuccessfulRecipients(reel_id)) = 1
                  THEN {<<"share:" \o u>> : u \in SuccessfulRecipients(reel_id)}
                  ELSE {}
    IN  {likes \o comments \o s : s \in shares}

\* C34: the action_taken of every reels_analyzed row lists exactly the
\* actions that have a successful engagement_log row for that reel, in the
\* order like, comment, share:recipient, and is "none" exactly when the reel
\* has no successful row.
ActionSummaryConsistent ==
    \A i \in ItemIds :
        db.reels_analyzed[i].present =>
            \E acts \in SuccessfulSummaries(i) :
                db.reels_analyzed[i].action_taken = action_str(acts)


LedgerFresh ==
    [][\A kind \in ActionKinds :
          /\ Attempted(kind)
          /\ db'.engagement_log[Len(db'.engagement_log)].success
          => CountLog(db', kind, LocalDate) = CountLog(db, kind, LocalDate) + 1
    ]_vars

=============================================================================
